---- MODULE Spec2Model ----
(***************************************************************************)
(* Model of the live chat: the socket client (src/src/lib/socket-client.ts, *)
(* class SocketClient: the transport connection, the session negotiation   *)
(* and the outbound message queue), the LiveChat component that uses it    *)
(* (src/src/components/LiveChat.tsx), the lead form of the widget          *)
(* (src/src/components/ChatbotWidget.tsx) and the lead API                 *)
(* (src/src/app/api/leads/route.ts).                                       *)
(*                                                                         *)
(* JavaScript runs every callback to completion, so one action is one      *)
(* task of the event loop: a public method called by the UI, a socket      *)
(* event handler, an acknowledgement callback or a timer callback,         *)
(* together with the promise continuations (microtasks) it triggers.       *)
(*                                                                         *)
(* socket.io-client is not part of the repository.  It is the environment: *)
(* a socket created by io() moves through the life cycle sketched at       *)
(* SockStates and delivers its events in any order that life cycle allows; *)
(* acknowledgements arrive in any order, late, or never; timers fire at    *)
(* any time after they were set.  So is the database of the lead API.      *)
(***************************************************************************)
EXTENDS Integers, Sequences, FiniteSets, TLC

\* ---------------------------------------------------------------- bounds
MaxSockets == 3      \* sockets io() may create in one behaviour
MaxMsgs == 3         \* sendMessage() calls in one behaviour
MaxNeg == 2          \* createChatSession() calls in one behaviour
MaxListeners == 2    \* connection-state listeners that may be registered
MaxLate == 1         \* send timeouts whose acknowledgement may still arrive
SendSockets == 1     \* sockets io() may create while messages are sent
SessionSockets == 2  \* sockets io() may create while sessions are negotiated
ListenerSockets == 1 \* sockets io() may create while listeners misbehave
ChatSockets == 2     \* sockets io() may create while the live chat is mounted
MaxAgentMsgs == 1    \* distinct ids of the messages the agent sends
TalkMsgs == 2        \* submissions of the live chat while its sends are settled
MaxReqs == 3         \* POST /api/leads requests in one behaviour
ResendSockets == 2   \* sockets io() may create while sends survive a disconnect
SettleMsgs == 2      \* sendMessage() calls while the timers are fair
FrameCalls == 1      \* calls of each operation while a listener watches the state
MaxPairs == 3        \* entries of the question/answer log of the widget
MaxPosts == 1        \* lead forms the widget posts in one behaviour

\* ------------------------------------------------------ program constants
maxReconnectAttempts == 5
maxRetries == 3
sessionRetries == 3

Socks == 1..MaxSockets
Msgs == 1..MaxMsgs
Negs == 1..MaxNeg
Listeners == 1..MaxListeners
NoSocket == 0
NoSession == 0
NoMessage == 0
\* The listener LiveChat registers (LiveChat.tsx line 98); the listeners of
\* other callers are numbered from 1.
ChatListener == 0
\* Ids of messages: those the live chat generates are 1..MaxMsgs, in the
\* order of generation; those of the agent's messages follow.
AgentMsgIds == (MaxMsgs + 1)..(MaxMsgs + MaxAgentMsgs)
AgentNames == {"Alex", "Sam"}
Reqs == 1..MaxReqs
Emails == {"a@x", "b@x"}

VARIABLES
  socket,               \* this.socket: NoSocket (null) or the socket in use
  sock,                 \* per socket io() created: its life-cycle state
  connectionState,      \* this.connectionState
  connectionListeners,  \* this.connectionListeners, in registration order
  sessionId,            \* this.sessionId: NoSession (null) or a session id
  messageQueue,         \* this.messageQueue: submissions not yet dequeued
  isProcessingQueue,    \* this.isProcessingQueue
  sent,                 \* number of sendMessage() calls made so far
  deliv,                \* per submission: the closure of sendMessageInternal
  outcome,              \* per submission: the promise sendMessage() returned
  emits,                \* per submission: 'send-message' emissions so far
  wireFirst,            \* submissions in the order of their first emission
  late,                 \* send timeouts whose acknowledgement is still due
  negs,                 \* number of createChatSession() calls made so far
  neg,                  \* per call: the closure of createChatSession
  behaviour,            \* per registered listener: what the function does
  chat,                 \* the state of the LiveChat component
  op,                   \* the task that ran last
  out,                  \* what the last task emitted: <<event, arg, socket>>
  notified,             \* the listeners the last task called, in call order
  raised,               \* whether the last task threw to its caller
  heard,                \* the inbound event the last task handled: <<event, arg, socket>>
  store,                \* the collection "leads": its documents, its unique index
  request,              \* per POST /api/leads request: where its handler stands
  widget                \* the state of the ChatbotWidget component

transportVars == <<socket, sock, connectionState, connectionListeners, sessionId>>
queueVars == <<messageQueue, isProcessingQueue, sent, deliv, outcome, emits, wireFirst, late>>
negVars == <<negs, neg>>
stepVars == <<op, out, notified, raised, heard>>
chatVars == <<behaviour, chat>>
clientVars == <<transportVars, queueVars, negVars, chatVars, stepVars>>
leadVars == <<store, request>>
vars == <<clientVars, leadVars, widget>>

\* A task of the chat client runs: op names it; the lead API, which runs
\* on the server, and the widget around the live chat are left alone.
ClientTask(name) == op' = name /\ UNCHANGED <<leadVars, widget>>

\* ------------------------------------------------------- the environment
\* Life cycle of a socket.io socket (socket.connected is st = "open"):
\*   none      not created yet
\*   opening   io() or socket.connect() called, handshake under way
\*   open      connected
\*   lost      connection lost or failed, the manager will try again
\*   retrying  a reconnection attempt is under way
\*   reopened  'reconnect' delivered, 'connect' not yet (socket.io 2.x)
\*   spent     the last of the reconnectionAttempts has failed
\*   down      no attempt pending: attempts used up, or the server closed
\*   closed    closed by the client's disconnect()
\* The manager numbers its attempts 1..reconnectionAttempts; which number
\* an attempt carries is left to the environment.
SockStates ==
  {"none", "opening", "open", "lost", "retrying", "reopened", "spent", "down", "closed"}

SockConnected(s) == s # NoSocket /\ sock[s] = "open"

Created == {s \in Socks : sock[s] # "none"}

\* ------------------------------------------------------- ConnectionState
InitialConnectionState ==
  [isConnected |-> FALSE, isConnecting |-> FALSE, lastError |-> "null", reconnectAttempts |-> 0]

\* { ...this.connectionState, ...updates }: the fields of updates win.
Merge(state, updates) ==
  [f \in DOMAIN state |-> IF f \in DOMAIN updates THEN updates[f] ELSE state[f]]

\* What a listener function does when it is called: nothing but observe,
\* throw, or call the unsubscribe handle it was given; "chat" is the
\* listener of LiveChat.
Behaviours == {"quiet", "throws", "unsubscribes"}

Behaviour(l) == IF l = ChatListener THEN "chat" ELSE behaviour[l]

InSeq(seq, x) == \E i \in 1..Len(seq) : seq[i] = x

\* indexOf and splice, lines 169-172: the first occurrence is removed.
Remove(seq, x) ==
  IF InSeq(seq, x)
    THEN LET i == CHOOSE k \in 1..Len(seq) : seq[k] = x /\ \A j \in 1..(k - 1) : seq[j] # x
         IN  SubSeq(seq, 1, i - 1) \o SubSeq(seq, i + 1, Len(seq))
    ELSE seq

\* The render whose closures the effect of LiveChat registers: the first
\* one, where sessionStatus has its initial value.
CapturedStatus == "connecting"

\* isError of useErrorHandler in that render.
CapturedIsError == FALSE

\* The listener of LiveChat.tsx lines 98-107, called with state cs.
ChatOnState(c, cs) ==
  IF ~c.mounted THEN c
  ELSE [c EXCEPT !.isReconnecting = cs.isConnecting /\ cs.reconnectAttempts > 0,
                 !.sessionStatus = IF cs.lastError # "null" /\ ~CapturedIsError
                                        /\ CapturedStatus # "error"
                                     THEN "error" ELSE @]

\* The task record t = [cs, nt, ls, chat, raised]: the connection state,
\* the listener calls made so far, the listener array, the state of
\* LiveChat and whether an exception has left the task.
\* listener(this.connectionState) for listener l of behaviour b.  Inside
\* notifyConnectionListeners the call is in a try block (lines 154-158);
\* the immediate call of onConnectionStateChange (line 165) is not, and it
\* is made before the unsubscribe handle is returned.
CallListener(t, l, b, immediate) ==
  LET t1 == [t EXCEPT !.nt = Append(@, l)]
  IN  CASE b = "chat" -> [t1 EXCEPT !.chat = ChatOnState(@, t.cs)]
        [] b = "throws" -> IF immediate THEN [t1 EXCEPT !.raised = TRUE] ELSE t1
        [] b = "unsubscribes" -> IF immediate THEN t1 ELSE [t1 EXCEPT !.ls = Remove(@, l)]
        [] OTHER -> t1

\* Array.prototype.forEach, line 153: the indices 1..len of the array as it
\* was when the loop began are visited in order; an index the array no
\* longer has is passed over; the element is read when its index is
\* reached.
RECURSIVE ForEachListener(_, _, _)
ForEachListener(t, k, len) ==
  IF k > len THEN t
  ELSE IF k > Len(t.ls) THEN ForEachListener(t, k + 1, len)
  ELSE ForEachListener(CallListener(t, t.ls[k], Behaviour(t.ls[k]), FALSE), k + 1, len)

\* notifyConnectionListeners, lines 152-160.
NotifyConnectionListeners(t) == ForEachListener(t, 1, Len(t.ls))

\* updateConnectionState, lines 147-150.
UpdateConnectionState(t, updates) ==
  NotifyConnectionListeners([t EXCEPT !.cs = Merge(@, updates)])

Task ==
  [cs |-> connectionState, nt |-> <<>>, ls |-> connectionListeners, chat |-> chat,
   raised |-> FALSE]

\* A listener that is not registered has no behaviour.
Behaving(ls, b) == [l \in Listeners |-> IF InSeq(ls, l) THEN b[l] ELSE "quiet"]

\* The task ends: its record becomes the state.
Commit(t) ==
  /\ connectionState' = t.cs
  /\ notified' = t.nt
  /\ connectionListeners' = t.ls
  /\ behaviour' = Behaving(t.ls, behaviour)
  /\ chat' = t.chat
  /\ raised' = t.raised
  /\ heard' = <<>>

\* A task that calls no listener and throws nothing.
Silent ==
  /\ notified' = <<>>
  /\ raised' = FALSE
  /\ heard' = <<>>
  /\ UNCHANGED behaviour

\* A silent task that leaves LiveChat alone.
Quiet == Silent /\ UNCHANGED chat

\* The 'disconnect' handler of connect(), lines 68-78.
DisconnectHandler(t) ==
  UpdateConnectionState(t, [isConnected |-> FALSE, isConnecting |-> FALSE,
                            lastError |-> "Disconnected"])

\* The outstanding acknowledgements of socket s are lost when s goes down.
DropAcks(d, s) ==
  [m \in Msgs |-> [d[m] EXCEPT !.acks = [x \in Socks |-> IF x = s THEN 0 ELSE @[x]]]]

DropNegAcks(n, s) ==
  [k \in Negs |->
     LET r == IF n[k].room = s THEN [n[k] EXCEPT !.room = NoSocket] ELSE n[k]
     IN  IF r.ackSock = s THEN [r EXCEPT !.wait = "none", !.ackSock = NoSocket] ELSE r]

\* ----------------------------------------------------------------- Init
\* A POST /api/leads request that has not arrived: where its handler
\* stands (idle, find: findOne awaited, insert: insertOne awaited, done),
\* the email of its body, the status of its response and the error behind
\* it.
NoRequest == [pc |-> "idle", email |-> "none", status |-> 0, error |-> "none"]

\* The fields of the lead form: the keys of formData, ChatbotWidget.tsx
\* lines 331-336.  A text is a sequence of characters.
Fields == {"name", "email", "phone", "company"}

\* The widget once its mount effect has run (lines 323-350 and 414-430):
\* the step of the scripted flow, the question/answer log (the step of
\* each entry), the form, its field-level errors ("" for none), the
\* stored live-chat user info (<<>> for null), and the number of calls
\* of fetch('/api/leads'); task is the handler that ran last.
NoWidget ==
  [step |-> "greeting", questionAnswerPairs |-> <<>>,
   formData |-> [f \in Fields |-> <<>>],
   formErrors |-> [f \in Fields |-> ""],
   liveChatUserInfo |-> <<>>, showLiveChat |-> FALSE,
   isSubmiting |-> FALSE, posts |-> 0, task |-> "mount"]

NoDelivery ==
  [phase |-> "none", retryCount |-> 0, timer |-> FALSE, backoffs |-> 0,
   acks |-> [s \in Socks |-> 0], val |-> "none", createdAt |-> 0, stamps |-> {},
   via |-> NoSocket]

NoPromise == [status |-> "none", value |-> "none"]

\* The closure of one createChatSession() call: its promise, whether its
\* 15 s timer is set, the acknowledgement it waits for and on which socket,
\* the last acknowledgement its callbacks have handled, and the socket the
\* server knows the session by: the one its last request went out on, none
\* once the server has refused a request.
NoNegotiation ==
  [promise |-> NoPromise, timer |-> FALSE, wait |-> "none", ackSock |-> NoSocket,
   last |-> "none", room |-> NoSocket]

\* LiveChat before it is mounted (useState initial values, lines 22-27):
\* the status, the agent's name, the session, the message list as records
\* [id, sessionId, sender, text, createdAt, failed], isReconnecting;
\* retries counts the user's retries, inits the runs of
\* initializeConnection, handlers is the socket the inbound handlers were
\* registered on, ids the message ids generated so far, owner the message
\* each submission carries and duplicate whether the last 'new-message'
\* was found in the list.
NoChat ==
  [mounted |-> FALSE, sessionStatus |-> "connecting", agentName |-> "",
   session |-> NoSession, messages |-> <<>>, isReconnecting |-> FALSE,
   retries |-> 0, inits |-> 0, handlers |-> NoSocket, ids |-> 0,
   owner |-> [m \in Msgs |-> NoMessage], duplicate |-> FALSE]

Init ==
  /\ socket = NoSocket
  /\ sock = [s \in Socks |-> "none"]
  /\ connectionState = InitialConnectionState
  /\ connectionListeners = <<>>
  /\ sessionId = NoSession
  /\ messageQueue = <<>>
  /\ isProcessingQueue = FALSE
  /\ sent = 0
  /\ deliv = [m \in Msgs |-> NoDelivery]
  /\ outcome = [m \in Msgs |-> NoPromise]
  /\ emits = [m \in Msgs |-> 0]
  /\ wireFirst = <<>>
  /\ late = 0
  /\ negs = 0
  /\ neg = [n \in Negs |-> NoNegotiation]
  /\ behaviour = [l \in Listeners |-> "quiet"]
  /\ chat = NoChat
  /\ op = "init"
  /\ out = <<>>
  /\ notified = <<>>
  /\ raised = FALSE
  /\ heard = <<>>
  /\ store = [docs |-> <<>>, unique |-> FALSE]
  /\ request = [r \in Reqs |-> NoRequest]
  /\ widget = NoWidget

\* A promise settles once: resolve and reject after that do nothing.
Settle(p, status, value) ==
  IF p.status = "pending" THEN [status |-> status, value |-> value] ELSE p

\* The messages of ids are taken off the list.
Unlist(messages, ids, failed) == SelectSeq(messages, LAMBDA msg : msg.id \notin ids)

\* prev.map(msg => msg.id === id ? { ...msg, failed } : msg), LiveChat.tsx
\* lines 191-195, 203-207 and 226-230, for each id of ids.
Mark(messages, ids, failed) ==
  [i \in DOMAIN messages |->
     IF messages[i].id \in ids THEN [messages[i] EXCEPT !.failed = failed] ELSE messages[i]]

\* Lines 180-186 and 213-219: the entry takes the createdAt of the value
\* the promise resolved with when the two differ; the caller's own object
\* carries the createdAt the entry has.
Confirm(messages, ids, value) ==
  [i \in DOMAIN messages |->
     IF messages[i].id \in ids /\ value # "caller"
       THEN [messages[i] EXCEPT !.createdAt = value] ELSE messages[i]]

\* The submissions of LiveChat whose promise takes the status in this task.
Settling(c, before, after, status) ==
  {m \in Msgs : /\ c.owner[m] # NoMessage
                /\ before[m].status # status
                /\ after[m].status = status}

\* The continuation of LiveChat's sendMessage and retryMessage after the
\* await (LiveChat.tsx lines 177-197 and 209-231): the message of a
\* submission whose promise is rejected is marked failed, that of one
\* whose promise is resolved takes the confirmed createdAt.
AfterSends(c, before, after) ==
  IF ~c.mounted THEN c
  ELSE LET resolved == Settling(c, before, after, "resolved")
           values == {after[m].value : m \in resolved}
           confirmed == IF resolved = {} THEN c.messages
                        ELSE Confirm(c.messages, {c.owner[m] : m \in resolved},
                                     CHOOSE v \in values : TRUE)
           rejected == {c.owner[m] : m \in Settling(c, before, after, "rejected")}
       IN  [c EXCEPT !.messages = Mark(confirmed, rejected, TRUE)]

\* The continuation of initializeConnection after the await (LiveChat.tsx
\* lines 76-87), for the negotiations of LiveChat that settle.
AfterNegotiation(c, before, after) ==
  IF ~c.mounted THEN c
  ELSE IF \E n \in Negs : before[n].promise.status = "pending"
                            /\ after[n].promise.status = "resolved"
    THEN [c EXCEPT !.session = CHOOSE n \in Negs : before[n].promise.status = "pending"
                                                    /\ after[n].promise.status = "resolved",
                   !.sessionStatus = "waiting",
                   !.isReconnecting = FALSE]
  ELSE IF \E n \in Negs : before[n].promise.status = "pending"
                            /\ after[n].promise.status = "rejected"
    THEN [c EXCEPT !.sessionStatus = "error", !.isReconnecting = FALSE]
  ELSE c

\* ------------------------------------------------------------- connect()
\* connect() without the early return of line 33.
NeverAlreadyConnected == FALSE

\* Line 33: if (this.socket?.connected) return this.socket.
AlreadyConnected == SockConnected(socket)

\* Lines 32-145.  io() hands out the next socket; with forceNew it is a new
\* socket with its own manager, and the previous one is not closed.
Connect ==
  /\ ClientTask("connect")
  /\ out' = <<>>
  /\ IF AlreadyConnected
       THEN /\ Quiet
            /\ UNCHANGED <<transportVars, queueVars, negVars>>
       ELSE \E s \in Socks :
              /\ sock[s] = "none"
              /\ \A x \in Socks : x < s => sock[x] # "none"
              /\ LET t == UpdateConnectionState(Task, [isConnecting |-> TRUE, lastError |-> "null"])
                 IN  Commit(t)
              /\ socket' = s
              /\ sock' = [sock EXCEPT ![s] = "opening"]
              /\ UNCHANGED <<sessionId, queueVars, negVars>>

\* ---------------------------------------------------------- disconnect()
\* The reset without reconnectAttempts.
ResetKeepsAttempts == [isConnected |-> FALSE, isConnecting |-> FALSE, lastError |-> "null"]

\* The reset of lines 368-373.
ResetUpdates ==
  [isConnected |-> FALSE, isConnecting |-> FALSE, lastError |-> "null", reconnectAttempts |-> 0]

\* Line 365: this.sessionId = null, inside if (this.socket).
SessionIdAfterDisconnect == IF socket # NoSocket THEN NoSession ELSE sessionId

\* Lines 376-378: every entry still in the queue is rejected.
RejectQueued(o, q) ==
  [m \in Msgs |-> IF \E i \in 1..Len(q) : q[i] = m
                    THEN Settle(o[m], "rejected", "ConnectionClosed")
                    ELSE o[m]]

\* Lines 361-380.  socket.disconnect() on a connected socket delivers the
\* socket's 'disconnect' event (reason "io client disconnect") before it
\* returns; a socket that is not connected is closed without an event.
Disconnect ==
  /\ ClientTask("disconnect")
  /\ out' = <<>>
  /\ LET t0 == IF SockConnected(socket) THEN DisconnectHandler(Task) ELSE Task
         t1 == UpdateConnectionState(t0, ResetUpdates)
     IN  Commit([t1 EXCEPT !.chat = AfterSends(@, outcome, RejectQueued(outcome, messageQueue))])
  /\ socket' = NoSocket
  /\ sock' = IF socket # NoSocket THEN [sock EXCEPT ![socket] = "closed"] ELSE sock
  /\ sessionId' = SessionIdAfterDisconnect
  /\ outcome' = RejectQueued(outcome, messageQueue)
  /\ messageQueue' = <<>>
  /\ deliv' = IF socket # NoSocket THEN DropAcks(deliv, socket) ELSE deliv
  /\ neg' = IF socket # NoSocket THEN DropNegAcks(neg, socket) ELSE neg
  /\ UNCHANGED <<isProcessingQueue, sent, emits, wireFirst, late, negs>>

\* ------------------------------------------------------ forceReconnect()
\* Lines 180-187: socket.disconnect(); socket.connect() on the same socket,
\* or connect() when there is no socket.
ForceReconnect ==
  /\ ClientTask("forceReconnect")
  /\ out' = <<>>
  /\ IF socket # NoSocket
       THEN /\ LET t == IF SockConnected(socket) THEN DisconnectHandler(Task) ELSE Task
               IN  Commit(t)
            /\ sock' = [sock EXCEPT ![socket] = "opening"]
            /\ deliv' = IF SockConnected(socket) THEN DropAcks(deliv, socket) ELSE deliv
            /\ neg' = IF SockConnected(socket) THEN DropNegAcks(neg, socket) ELSE neg
            /\ UNCHANGED <<socket, sessionId, messageQueue,
                           isProcessingQueue, sent, outcome, emits, wireFirst, late, negs>>
       ELSE \E s \in Socks :
              /\ sock[s] = "none"
              /\ \A x \in Socks : x < s => sock[x] # "none"
              /\ LET t == UpdateConnectionState(Task, [isConnecting |-> TRUE, lastError |-> "null"])
                 IN  Commit(t)
              /\ socket' = s
              /\ sock' = [sock EXCEPT ![s] = "opening"]
              /\ UNCHANGED <<sessionId, queueVars, negVars>>

\* -------------------------------------------------- socket event handlers
\* The updates without the reset of reconnectAttempts.
ConnectKeepsAttempts == [isConnected |-> TRUE, isConnecting |-> FALSE, lastError |-> "null"]

\* The updates of the 'connect' handler, lines 57-62.
ConnectUpdates ==
  [isConnected |-> TRUE, isConnecting |-> FALSE, lastError |-> "null", reconnectAttempts |-> 0]

\* Line 65: this.socket?.emit('register-client', ...) goes to the socket
\* the client holds now, which need not be the socket that connected.
RegisterClient == IF socket # NoSocket THEN <<<<"register-client", "chatbot", socket>>>> ELSE <<>>

\* 'connect', lines 55-66: after the first handshake and after every
\* reconnection (socket.io 4.x announces a reconnection to the socket by
\* this event alone).
OnConnect(s) ==
  /\ sock[s] \in {"opening", "lost", "retrying", "reopened"}
  /\ ClientTask("on:connect")
  /\ sock' = [sock EXCEPT ![s] = "open"]
  /\ LET t == UpdateConnectionState(Task, ConnectUpdates)
     IN  Commit(t)
  /\ out' = RegisterClient
  /\ UNCHANGED <<socket, sessionId, queueVars, negVars>>

\* 'disconnect', lines 68-78: the transport was lost (the manager will try
\* to reconnect) or the server closed the socket (it will not).
OnDisconnect(s) ==
  /\ sock[s] = "open"
  /\ ClientTask("on:disconnect")
  /\ out' = <<>>
  /\ \E next \in {"lost", "down"} : sock' = [sock EXCEPT ![s] = next]
  /\ LET t == DisconnectHandler(Task)
     IN  Commit(t)
  /\ deliv' = DropAcks(deliv, s)
  /\ neg' = DropNegAcks(neg, s)
  /\ UNCHANGED <<socket, sessionId, messageQueue, isProcessingQueue,
                 sent, outcome, emits, wireFirst, late, negs>>

\* 'connect_error', lines 80-91: the handshake, or an attempt, failed.
OnConnectError(s) ==
  /\ sock[s] \in {"opening", "retrying"}
  /\ ClientTask("on:connect_error")
  /\ out' = <<>>
  /\ sock' = [sock EXCEPT ![s] = "lost"]
  /\ LET t == UpdateConnectionState(Task, [isConnected |-> FALSE, isConnecting |-> FALSE,
                                           lastError |-> "ConnectionFailed"])
     IN  Commit(t)
  /\ UNCHANGED <<socket, sessionId, queueVars, negVars>>

\* 'reconnect', lines 93-101.
OnReconnect(s) ==
  /\ sock[s] = "retrying"
  /\ ClientTask("on:reconnect")
  /\ out' = <<>>
  /\ sock' = [sock EXCEPT ![s] = "reopened"]
  /\ LET t == UpdateConnectionState(Task, ConnectUpdates)
     IN  Commit(t)
  /\ UNCHANGED <<socket, sessionId, queueVars, negVars>>

\* 'reconnect_attempt', lines 103-109, with the attempt's number.
OnReconnectAttempt(s, attemptNumber) ==
  /\ sock[s] = "lost"
  /\ ClientTask("on:reconnect_attempt")
  /\ out' = <<>>
  /\ sock' = [sock EXCEPT ![s] = "retrying"]
  /\ LET t == UpdateConnectionState(Task, [isConnecting |-> TRUE,
                                           reconnectAttempts |-> attemptNumber])
     IN  Commit(t)
  /\ UNCHANGED <<socket, sessionId, queueVars, negVars>>

\* 'reconnect_error', lines 111-120.
OnReconnectError(s) ==
  /\ sock[s] = "retrying"
  /\ ClientTask("on:reconnect_error")
  /\ out' = <<>>
  /\ \E next \in {"lost", "spent"} : sock' = [sock EXCEPT ![s] = next]
  /\ LET t == UpdateConnectionState(Task, [isConnecting |-> FALSE,
                                           lastError |-> "ReconnectionFailed"])
     IN  Commit(t)
  /\ UNCHANGED <<socket, sessionId, queueVars, negVars>>

\* 'reconnect_failed', lines 122-132: the attempts are used up.
OnReconnectFailed(s) ==
  /\ sock[s] = "spent"
  /\ ClientTask("on:reconnect_failed")
  /\ out' = <<>>
  /\ sock' = [sock EXCEPT ![s] = "down"]
  /\ LET t == UpdateConnectionState(Task, [isConnected |-> FALSE, isConnecting |-> FALSE,
                                           lastError |-> "AllAttemptsFailed"])
     IN  Commit(t)
  /\ UNCHANGED <<socket, sessionId, queueVars, negVars>>

\* 'error', lines 134-142.
OnError(s) ==
  /\ sock[s] \notin {"none", "closed"}
  /\ ClientTask("on:error")
  /\ out' = <<>>
  /\ LET t == UpdateConnectionState(Task, [lastError |-> "SocketError"])
     IN  Commit(t)
  /\ UNCHANGED <<socket, sock, sessionId, queueVars, negVars>>

\* ------------------------------------------------ connection listeners
Registered(l) == \E i \in 1..Len(connectionListeners) : connectionListeners[i] = l

\* The listener is pushed and every listener is notified.
SubscribedAnnounced(t, l, b) == NotifyConnectionListeners([t EXCEPT !.ls = Append(@, l)])

\* onConnectionStateChange, lines 162-166, as a function of the task
\* record: push, then call the listener.
Subscribed(t, l, b) == CallListener([t EXCEPT !.ls = Append(@, l)], l, b, TRUE)

\* onConnectionStateChange called with a listener of behaviour b.
Subscribe(l, b) ==
  /\ ~Registered(l)
  /\ ClientTask("onConnectionStateChange")
  /\ out' = <<>>
  /\ LET t == Subscribed(Task, l, b)
     IN  /\ connectionListeners' = t.ls
         /\ notified' = t.nt
         /\ raised' = t.raised
         /\ chat' = t.chat
  /\ heard' = <<>>
  /\ behaviour' = [behaviour EXCEPT ![l] = b]
  /\ UNCHANGED <<socket, sock, connectionState, sessionId, queueVars, negVars>>

\* onConnectionStateChange called with a listener that only observes.
OnConnectionStateChange(l) == Subscribe(l, "quiet")

\* The unsubscribe function, lines 168-173, called by the caller that was
\* given it; a caller whose listener threw at registration was given none.
Unsubscribe(l) ==
  /\ Registered(l)
  /\ behaviour[l] # "throws"
  /\ ClientTask("unsubscribe")
  /\ out' = <<>>
  /\ notified' = <<>>
  /\ raised' = FALSE
  /\ heard' = <<>>
  /\ connectionListeners' = Remove(connectionListeners, l)
  /\ behaviour' = Behaving(Remove(connectionListeners, l), behaviour)
  /\ UNCHANGED <<socket, sock, connectionState, sessionId, queueVars, negVars, chat>>

\* The test with only its first half.
NoSocketHeld == socket = NoSocket

\* Lines 191, 233 and 267: if (!this.socket || !this.connectionState.isConnected).
NotConnected == socket = NoSocket \/ ~connectionState.isConnected

\* --------------------------------------------------- createChatSession()
\* Lines 189-229, up to the emission of 'create-session'.  The session id
\* of the draft is the number of the call.
CreateChatSession ==
  /\ negs < MaxNeg
  /\ ClientTask("createChatSession")
  /\ Silent
  /\ negs' = negs + 1
  /\ IF NotConnected
       THEN /\ neg' = [neg EXCEPT ![negs + 1].promise =
                         [status |-> "rejected", value |-> "NotConnected"]]
            /\ out' = <<>>
            /\ UNCHANGED sessionId
       ELSE /\ sessionId' = negs + 1
            /\ neg' = [neg EXCEPT ![negs + 1] =
                         [promise |-> [status |-> "pending", value |-> "none"],
                          timer |-> TRUE, wait |-> "create", ackSock |-> socket,
                          last |-> "none", room |-> socket]]
            /\ out' = <<<<"create-session", negs + 1, socket>>>>
  /\ UNCHANGED <<socket, sock, connectionState, connectionListeners, queueVars, chat>>

\* The timer cleared by every acknowledgement of 'create-session'.
TimerCleared(timer, success) == FALSE

\* The timer cleared by no acknowledgement of 'create-session'.
TimerKept(timer, success) == timer

\* Line 222: clearTimeout(timeout) in the failure branch only; a successful
\* acknowledgement of 'create-session' leaves the timer running.
TimerAfterCreateAck(timer, success) == IF success THEN timer ELSE FALSE

\* The stored current session id in place of the draft's.
CurrentSessionId(n) == sessionId

\* Line 209: 'join-session' carries sessionData.id, the id of the draft of
\* this call.
JoinKey(n) == n

\* The acknowledgement of 'create-session', lines 204-227.  On success
\* 'join-session' goes out through this.socket?.emit; the promise is left
\* as it is.  On failure the timeout is cleared and the promise rejected.
CreateSessionAck(n, success) ==
  /\ neg[n].wait = "create"
  /\ SockConnected(neg[n].ackSock)
  /\ ClientTask("ack:create-session")
  /\ Silent
  /\ IF success
       THEN /\ neg' = [neg EXCEPT ![n].wait = IF socket # NoSocket THEN "join" ELSE "none",
                                  ![n].ackSock = socket,
                                  ![n].room = IF socket # NoSocket THEN socket ELSE @,
                                  ![n].timer = TimerAfterCreateAck(@, success),
                                  ![n].last = "createOk"]
            /\ out' = IF socket # NoSocket THEN <<<<"join-session", JoinKey(n), socket>>>>
                      ELSE <<>>
       ELSE /\ neg' = [neg EXCEPT ![n].wait = "none", ![n].ackSock = NoSocket,
                                  ![n].room = NoSocket,
                                  ![n].timer = TimerAfterCreateAck(@, success),
                                  ![n].last = "createFail",
                                  ![n].promise = Settle(@, "rejected", "ServerError")]
            /\ out' = <<>>
  /\ chat' = AfterNegotiation(chat, neg, neg')
  /\ UNCHANGED <<transportVars, queueVars, negs>>

\* The acknowledgement of 'join-session', lines 209-220.
JoinSessionAck(n, success) ==
  /\ neg[n].wait = "join"
  /\ SockConnected(neg[n].ackSock)
  /\ ClientTask("ack:join-session")
  /\ Silent
  /\ out' = <<>>
  /\ neg' = [neg EXCEPT ![n].wait = "none", ![n].ackSock = NoSocket,
                        ![n].room = IF success THEN @ ELSE NoSocket,
                        ![n].timer = FALSE,
                        ![n].last = IF success THEN "joinOk" ELSE "joinFail",
                        ![n].promise = IF success THEN Settle(@, "resolved", "session")
                                       ELSE Settle(@, "rejected", "ServerError")]
  /\ chat' = AfterNegotiation(chat, neg, neg')
  /\ UNCHANGED <<transportVars, queueVars, negs>>

\* The 15 s timer of lines 199-201 fires.
SessionTimeout(n) ==
  /\ neg[n].timer
  /\ ClientTask("timer:session")
  /\ Silent
  /\ out' = <<>>
  /\ neg' = [neg EXCEPT ![n].timer = FALSE,
                        ![n].promise = Settle(@, "rejected", "TimedOut")]
  /\ chat' = AfterNegotiation(chat, neg, neg')
  /\ UNCHANGED <<transportVars, queueVars, negs>>

\* ------------------------------------------------- outbound message queue
\* The queue state a task works on: the fields of queueVars, the emissions
\* of the task and the state of LiveChat.
QueueState ==
  [queue |-> messageQueue, processing |-> isProcessingQueue, deliv |-> deliv,
   outcome |-> outcome, emits |-> emits, wireFirst |-> wireFirst, out |-> <<>>,
   chat |-> chat]

\* new Date(): the time, counted in the emissions made so far.
RECURSIVE Now(_, _)
Now(e, n) == IF n = 0 THEN 0 ELSE e[n] + Now(e, n - 1)

\* createdAt is taken anew at every emission.
StampedAnew(q, m) == Now(q.emits, MaxMsgs)

\* messageWithTimestamp.createdAt, lines 272-276: the value the closure
\* holds.
Stamped(q, m) == q.deliv[m].createdAt

\* Line 298: this.socket?.emit('send-message', messageWithTimestamp, ack).
Emit(q, m) ==
  IF socket = NoSocket THEN q
  ELSE [q EXCEPT !.emits[m] = @ + 1,
                 !.deliv[m].stamps = @ \cup {Stamped(q, m)},
                 !.deliv[m].acks[socket] = @ + 1,
                 !.wireFirst = IF q.emits[m] = 0 THEN Append(@, m) ELSE @,
                 !.out = Append(@, <<"send-message", m, socket>>)]

\* The message is emitted and no timeout is set.
AttemptSendUntimed(q, m) == Emit(q, m)

\* attemptSend, lines 283-316: the previous timeout is cleared, a new one
\* is set, the message is emitted.
AttemptSend(q, m) == Emit([q EXCEPT !.deliv[m].timer = TRUE], m)

\* The test off by one.
MayRetryOnceMore(retryCount) == retryCount <= maxRetries + 1

\* Lines 290 and 306: if (retryCount <= maxRetries).
MayRetry(retryCount) == retryCount <= maxRetries

\* sendMessageInternal, lines 265-320, up to the first attemptSend(); via
\* is the socket the client holds when the delivery starts.
SendMessageInternal(q, m) ==
  IF NotConnected
    THEN [q EXCEPT !.deliv[m].phase = "rejected", !.deliv[m].val = "SocketNotConnected"]
    ELSE AttemptSend([q EXCEPT !.deliv[m].phase = "pending",
                               !.deliv[m].createdAt = Now(q.emits, MaxMsgs),
                               !.deliv[m].via = socket], m)

\* Line 256: resolve(messageData), the object the caller passed in; the
\* value sendMessageInternal resolved with is dropped.
ResolvedValue(value) == "caller"

\* Lines 255-259: what follows the await.
AfterAwait(q, m) ==
  IF q.deliv[m].phase = "resolved"
    THEN [q EXCEPT !.outcome[m] = Settle(@, "resolved", ResolvedValue(q.deliv[m].val))]
    ELSE [q EXCEPT !.outcome[m] = Settle(@, "rejected", q.deliv[m].val)]

\* pop() in place of shift().
Pop(queue) == [item |-> queue[Len(queue)], rest |-> SubSeq(queue, 1, Len(queue) - 1)]

\* Line 252: this.messageQueue.shift().
Shift(queue) == [item |-> Head(queue), rest |-> Tail(queue)]

\* The while loop of lines 251-262, from its test to the next await that
\* suspends it.
RECURSIVE Loop(_)
Loop(q) ==
  IF Len(q.queue) = 0
    THEN [q EXCEPT !.processing = FALSE]
    ELSE LET m == Shift(q.queue).item
             q1 == SendMessageInternal([q EXCEPT !.queue = Shift(q.queue).rest], m)
         IN  IF q1.deliv[m].phase = "pending" THEN q1 ELSE Loop(AfterAwait(q1, m))

\* The test without the isProcessingQueue flag.
QueueEmpty(processing, queue) == Len(queue) = 0

\* Line 245: if (this.isProcessingQueue || this.messageQueue.length === 0) return.
QueueBusy(processing, queue) == processing \/ Len(queue) = 0

\* processMessageQueue, lines 244-263.
ProcessMessageQueue(q) ==
  IF QueueBusy(q.processing, q.queue) THEN q ELSE Loop([q EXCEPT !.processing = TRUE])

\* The delivery of m settles: the loop awaiting it goes on.
Resume(q, m) == Loop(AfterAwait(q, m))

\* The promise of sendMessageInternal settles once.
ResolveDelivery(q, m, value) ==
  IF q.deliv[m].phase = "pending"
    THEN Resume([q EXCEPT !.deliv[m].phase = "resolved", !.deliv[m].val = value], m)
    ELSE q

RejectDelivery(q, m, error) ==
  IF q.deliv[m].phase = "pending"
    THEN Resume([q EXCEPT !.deliv[m].phase = "rejected", !.deliv[m].val = error], m)
    ELSE q

SetQueueState(q) ==
  /\ messageQueue' = q.queue
  /\ isProcessingQueue' = q.processing
  /\ deliv' = q.deliv
  /\ outcome' = q.outcome
  /\ emits' = q.emits
  /\ wireFirst' = q.wireFirst
  /\ out' = q.out
  /\ chat' = AfterSends(q.chat, outcome, q.outcome)

\* sendMessage, lines 231-242, as a function of the queue state, for the
\* submission numbered m.
Submitted(q, m) ==
  IF NotConnected
    THEN [q EXCEPT !.outcome[m] = [status |-> "rejected", value |-> "NotConnected"]]
    ELSE ProcessMessageQueue([q EXCEPT
           !.outcome[m] = [status |-> "pending", value |-> "none"],
           !.queue = Append(@, m)])

\* sendMessage called by a caller other than LiveChat.
SendMessage ==
  /\ sent < MaxMsgs
  /\ ClientTask("sendMessage")
  /\ Silent
  /\ sent' = sent + 1
  /\ late' = late
  /\ SetQueueState(Submitted(QueueState, sent + 1))
  /\ UNCHANGED <<transportVars, negVars>>

\* response.message || messageWithTimestamp, line 303.
AckValue(hasMessage) == IF hasMessage THEN "server" ELSE "stamped"

\* The acknowledgement callback of lines 298-315 with a successful
\* response, for an emission of m on socket s.
AckSuccess(m, s, hasMessage) ==
  /\ deliv[m].acks[s] > 0
  /\ SockConnected(s)
  /\ ClientTask("ack:success")
  /\ Silent
  /\ SetQueueState(ResolveDelivery(
       [QueueState EXCEPT !.deliv[m].acks[s] = @ - 1, !.deliv[m].timer = FALSE],
       m, AckValue(hasMessage)))
  /\ UNCHANGED <<transportVars, sent, late, negVars>>

\* The same callback with a failure response: retry after a delay, or
\* reject.
AckFailure(m, s) ==
  /\ deliv[m].acks[s] > 0
  /\ SockConnected(s)
  /\ ClientTask("ack:failure")
  /\ Silent
  /\ LET q == [QueueState EXCEPT !.deliv[m].acks[s] = @ - 1, !.deliv[m].timer = FALSE,
                                 !.deliv[m].retryCount = @ + 1]
     IN  IF MayRetry(q.deliv[m].retryCount)
           THEN SetQueueState([q EXCEPT !.deliv[m].backoffs = @ + 1])
           ELSE SetQueueState(RejectDelivery(q, m, "DeliveryFailed"))
  /\ UNCHANGED <<transportVars, sent, late, negVars>>

Unanswered(m) == \E s \in Socks : deliv[m].acks[s] > 0

\* The 10 s timer of lines 288-296 fires.  The server's answers to the
\* emissions made so far are either only delayed (stillDue) and may
\* arrive later, or lost for good.
SendTimeout(m, stillDue) ==
  /\ deliv[m].timer
  /\ stillDue => Unanswered(m) /\ late < MaxLate
  /\ late' = IF stillDue THEN late + 1 ELSE late
  /\ ClientTask("timer:send")
  /\ Silent
  /\ LET q == [QueueState EXCEPT
                 !.deliv[m].timer = FALSE,
                 !.deliv[m].retryCount = @ + 1,
                 !.deliv[m].acks = IF stillDue THEN @ ELSE [s \in Socks |-> 0]]
     IN  IF MayRetry(q.deliv[m].retryCount)
           THEN SetQueueState(AttemptSend(q, m))
           ELSE SetQueueState(RejectDelivery(q, m, "DeliveryTimeout"))
  /\ UNCHANGED <<transportVars, sent, negVars>>

\* A timer of line 308, setTimeout(attemptSend, 1000 * retryCount), fires.
RetryTimer(m) ==
  /\ deliv[m].backoffs > 0
  /\ ClientTask("timer:retry")
  /\ Silent
  /\ SetQueueState(AttemptSend([QueueState EXCEPT !.deliv[m].backoffs = @ - 1], m))
  /\ UNCHANGED <<transportVars, sent, late, negVars>>

\* ---------------------------------------------------------------- LiveChat
FreeSocks == {s \in Socks : sock[s] = "none"}

\* The socket io() hands out next.
NewSocket == CHOOSE s \in FreeSocks : \A x \in FreeSocks : s <= x

\* initializeConnection, LiveChat.tsx lines 53-88, starting from the state c0
\* of LiveChat: setSessionStatus('connecting'), socketClient.connect() and
\* socketClient.createChatSession() run one after the other in the same
\* task; what follows the await runs when the promise settles, which for a
\* promise rejected at once is at the end of this task.  When the effect
\* of lines 94-156 is what calls it (mounting), the effect goes on to
\* register the listener (line 98) and the inbound handlers (lines
\* 110-150, on the socket the client holds then) before that.
InitializeConnection(c0, mounting) ==
  /\ AlreadyConnected \/ FreeSocks # {}
  /\ LET t0 == [Task EXCEPT !.chat = [c0 EXCEPT !.sessionStatus = "connecting",
                                                !.inits = @ + 1]]
         t1 == IF AlreadyConnected THEN t0
               ELSE UpdateConnectionState(t0, [isConnecting |-> TRUE, lastError |-> "null"])
         sk == IF AlreadyConnected THEN socket ELSE NewSocket
         starts == t1.cs.isConnected
         t2 == IF mounting
                 THEN [Subscribed(t1, ChatListener, "chat") EXCEPT !.chat.handlers = sk]
                 ELSE t1
         t3 == IF starts THEN t2
               ELSE [t2 EXCEPT !.chat.sessionStatus = "error", !.chat.isReconnecting = FALSE]
     IN  /\ starts => negs < MaxNeg
         /\ Commit(t3)
         /\ socket' = sk
         /\ sock' = IF AlreadyConnected THEN sock ELSE [sock EXCEPT ![sk] = "opening"]
         /\ IF starts
              THEN /\ sessionId' = negs + 1
                   /\ negs' = negs + 1
                   /\ neg' = [neg EXCEPT ![negs + 1] =
                                [promise |-> [status |-> "pending", value |-> "none"],
                                 timer |-> TRUE, wait |-> "create", ackSock |-> sk,
                                 last |-> "none", room |-> sk]]
                   /\ out' = <<<<"create-session", negs + 1, sk>>>>
              ELSE /\ out' = <<>>
                   /\ UNCHANGED <<sessionId, negVars>>
  /\ UNCHANGED queueVars

\* LiveChat is mounted: the effect of lines 94-156 runs.
ChatMount ==
  /\ ~chat.mounted
  /\ ClientTask("mount")
  /\ InitializeConnection([chat EXCEPT !.mounted = TRUE], TRUE)

\* A retry budget that is never exhausted.
AlwaysRetry == TRUE

\* canRetry of useErrorHandler: the session-retry budget (maxRetries: 3,
\* LiveChat.tsx line 39) is not exhausted.
CanRetry == chat.retries < sessionRetries

\* The user presses the retry button (lines 90-92, 351-361), which is
\* shown while the status is 'error' and enabled while canRetry;
\* retryOperation counts the retry and runs initializeConnection.
ChatRetry ==
  /\ chat.mounted
  /\ chat.sessionStatus = "error"
  /\ CanRetry
  /\ ClientTask("retry")
  /\ InitializeConnection([chat EXCEPT !.retries = @ + 1], FALSE)

\* The server sends the events of a session to the sockets it knows the
\* session by.
InRoom(s) == SockConnected(s) /\ \E n \in Negs : neg[n].room = s

\* The inbound handlers are those socket.on() put on the socket the client
\* held when the effect ran (socket-client.ts lines 322-359).
Handled(s) == chat.mounted /\ chat.handlers = s

\* An inbound event arrives on socket s; c is the state its handler leaves.
Inbound(event, arg, s, c) ==
  /\ out' = <<>>
  /\ notified' = <<>>
  /\ raised' = FALSE
  /\ heard' = <<<<event, arg, s>>>>
  /\ chat' = IF Handled(s) THEN c ELSE chat
  /\ UNCHANGED <<transportVars, queueVars, negVars, behaviour>>

\* No message is ever found in the list.
NeverExists(messages, id) == FALSE

\* LiveChat.tsx line 118: prev.some(msg => msg.id === message.id).
Exists(messages, id) == \E i \in DOMAIN messages : messages[i].id = id

\* The message object a 'new-message' event of socket s carries for id: the
\* server's copy, with the session the server knows the socket by.
InboundMessage(s, id) ==
  [id |-> id,
   sessionId |-> IF \E n \in Negs : neg[n].room = s
                   THEN CHOOSE n \in Negs : neg[n].room = s ELSE NoSession,
   sender |-> IF id \in AgentMsgIds THEN "agent" ELSE "user",
   text |-> "server", createdAt |-> "server", failed |-> FALSE]

\* The handler of 'new-message', LiveChat.tsx lines 115-126.
NewMessageHandler(c, message) ==
  IF Exists(c.messages, message.id)
    THEN [c EXCEPT !.duplicate = TRUE]
    ELSE [c EXCEPT !.messages = Append(@, message), !.duplicate = FALSE]

\* 'new-message' with an agent's message or the echo of one of LiveChat's.
OnNewMessage(s, id) ==
  /\ InRoom(s)
  /\ id \in AgentMsgIds \cup 1..chat.ids
  /\ ClientTask("on:new-message")
  /\ Inbound("new-message", id, s, NewMessageHandler(chat, InboundMessage(s, id)))

\* 'agent-joined', LiveChat.tsx lines 128-132.
OnAgentJoined(s, agentName) ==
  /\ InRoom(s)
  /\ ClientTask("on:agent-joined")
  /\ Inbound("agent-joined", agentName, s,
             [chat EXCEPT !.agentName = agentName, !.sessionStatus = "active"])

\* 'session-closed', LiveChat.tsx lines 134-137.
OnSessionClosed(s) ==
  /\ InRoom(s)
  /\ ClientTask("on:session-closed")
  /\ Inbound("session-closed", "none", s, [chat EXCEPT !.sessionStatus = "closed"])

\* 'session-error', LiveChat.tsx lines 139-145.
OnSessionError(s) ==
  /\ SockConnected(s)
  /\ ClientTask("on:session-error")
  /\ Inbound("session-error", "none", s,
             [chat EXCEPT !.sessionStatus = IF CapturedStatus # "error" THEN "error" ELSE @])

\* messageData of LiveChat.tsx lines 162-168.
MessageData(id, session) ==
  [id |-> id, sessionId |-> session, sender |-> "user", text |-> "typed",
   createdAt |-> "client", failed |-> FALSE]

\* The user submits a message, LiveChat.tsx lines 158-198: the form is
\* rendered unless the status is 'error' or 'closed' and can be submitted
\* while the status is 'active' (lines 463-494); the message is added to
\* the list, then handed to socketClient.sendMessage.
ChatSend ==
  /\ chat.mounted
  /\ chat.sessionStatus = "active"
  /\ chat.session # NoSession
  /\ sent < MaxMsgs
  /\ ClientTask("chat:send")
  /\ Silent
  /\ sent' = sent + 1
  /\ late' = late
  /\ LET id == chat.ids + 1
         c == [chat EXCEPT !.ids = id,
                           !.messages = Append(@, MessageData(id, chat.session)),
                           !.owner[sent + 1] = id]
     IN  SetQueueState(Submitted([QueueState EXCEPT !.chat = c], sent + 1))
  /\ UNCHANGED <<transportVars, negVars>>

\* The user presses the Retry button of the i-th message, which is rendered
\* while the message is failed (LiveChat.tsx lines 418-425): retryMessage,
\* lines 200-232, clears the flag and hands the message to
\* socketClient.sendMessage again.
RetryMessage(i) ==
  /\ chat.mounted
  /\ i \in DOMAIN chat.messages
  /\ chat.messages[i].failed
  /\ sent < MaxMsgs
  /\ ClientTask("chat:retry-message")
  /\ Silent
  /\ sent' = sent + 1
  /\ late' = late
  /\ LET id == chat.messages[i].id
         c == [chat EXCEPT !.messages = Mark(@, {id}, FALSE),
                           !.owner[sent + 1] = id]
     IN  SetQueueState(Submitted([QueueState EXCEPT !.chat = c], sent + 1))
  /\ UNCHANGED <<transportVars, negVars>>

\* ---------------------------------------------------- POST /api/leads
\* src/src/app/api/leads/route.ts.  The handler runs on the server, one
\* instance per request; the instances interleave at their awaits, and
\* the database executes each operation at one instant.
\* collection.findOne({ email }) finds a document, line 46.
Stored(email) == \E i \in DOMAIN store.docs : store.docs[i].email = email

\* The response of the handler and of withErrorHandling, lines 6-36.
Respond(r, status, error) ==
  request' = [request EXCEPT ![r].pc = "done", ![r].status = status, ![r].error = error]

\* A request arrives, lines 39-44: the body is read and validated, a
\* ValidationError is answered with 400 (lines 13-22); then findOne is
\* sent to the database.
Post(r, email, valid) ==
  /\ request[r].pc = "idle"
  /\ \A q \in Reqs : q < r => request[q].pc # "idle"
  /\ request' = [request EXCEPT ![r] =
                   IF valid THEN [@ EXCEPT !.pc = "find", !.email = email]
                   ELSE [pc |-> "done", email |-> email, status |-> 400,
                         error |-> "Validation"]]
  /\ UNCHANGED <<clientVars, widget, store>>

\* The database executes findOne and the handler goes on, lines 46-53: a
\* lead that exists is answered with 409; otherwise insertOne is sent.  A
\* database that fails makes the handler throw: 500, lines 24-34.
FindOne(r, fails) ==
  /\ request[r].pc = "find"
  /\ IF fails THEN Respond(r, 500, "Outage")
     ELSE IF Stored(request[r].email) THEN Respond(r, 409, "Duplicate")
     ELSE request' = [request EXCEPT ![r].pc = "insert"]
  /\ UNCHANGED <<clientVars, widget, store>>

\* The database executes insertOne and the handler goes on, lines 55-74:
\* 201 with the lead.  The insertion is refused when the database fails
\* and when a unique index on email finds the email stored: 500.
InsertOne(r, fails) ==
  /\ request[r].pc = "insert"
  /\ IF fails THEN /\ Respond(r, 500, "Outage")
                    /\ UNCHANGED store
     ELSE IF store.unique /\ Stored(request[r].email)
       THEN /\ Respond(r, 500, "DuplicateKey")
            /\ UNCHANGED store
     ELSE /\ Respond(r, 201, "none")
          /\ store' = [store EXCEPT !.docs = Append(@, [email |-> request[r].email, by |-> r])]
  /\ UNCHANGED <<clientVars, widget>>

\* The collection of line 43 is given a unique index on email by whoever
\* runs the database; the handler creates none.
CreateIndex ==
  /\ ~store.unique
  /\ \A i, j \in DOMAIN store.docs : i # j => store.docs[i].email # store.docs[j].email
  /\ store' = [store EXCEPT !.unique = TRUE]
  /\ UNCHANGED <<clientVars, widget, request>>

\* ------------------------------------------------------ ChatbotWidget
\* src/src/components/ChatbotWidget.tsx, the version of lines 299-746.
Digits == {"0", "1", "2", "3", "4", "5", "6", "7", "8", "9"}

\* What the user may type into a field.
Inputs(field) ==
  CASE field = "email" ->
         {<<"a", "@", "b">>, <<"a", "@", "b", ".", "c">>,
          <<" ", "a", "@", "b", ".", "c">>}
    [] field = "phone" ->
         {<<" ">>, <<"0", "1">>, <<"+", "1", " ", "(", "5", ")", "-", "0">>}
    [] field = "name" -> {<<" ">>, <<"A", " ">>, <<" ", "A", "l">>}
    [] OTHER -> {<<"A", " ">>, <<" ", "A", "l">>}

\* value.trim()
RECURSIVE Trim(_)
Trim(value) ==
  IF value = <<>> THEN value
  ELSE IF Head(value) = " " THEN Trim(Tail(value))
  ELSE IF value[Len(value)] = " " THEN Trim(SubSeq(value, 1, Len(value) - 1))
  ELSE value

\* /^[^\s@]+@[^\s@]+\.[^\s@]+$/.test(value), line 380
EmailRegex(value) ==
  \E at, dot \in 1..Len(value) :
     /\ 1 < at /\ at + 1 < dot /\ dot < Len(value)
     /\ value[at] = "@" /\ value[dot] = "."
     /\ \A i \in 1..Len(value) : i # at => value[i] \notin {" ", "@"}

\* /^[\+]?[1-9][\d]{0,15}$/.test(value.replace(/[\s\-\(\)]/g, '')),
\* lines 385-386
PhoneRegex(value) ==
  LET bare == SelectSeq(value, LAMBDA ch : ch \notin {" ", "-", "(", ")"})
      digits == IF bare # <<>> /\ Head(bare) = "+" THEN Tail(bare) ELSE bare
  IN  /\ Len(digits) \in 1..16
      /\ digits[1] \in Digits \ {"0"}
      /\ \A i \in 2..Len(digits) : digits[i] \in Digits

\* validateFormField(name, value), lines 372-396: the error of one field,
\* "" when it has none.
ValidateFormField(name, value) ==
  CASE name = "name" ->
         IF Trim(value) = <<>> THEN "Name is required"
         ELSE IF Len(Trim(value)) < 2 THEN "Name must be at least 2 characters"
         ELSE ""
    [] name = "email" ->
         IF Trim(value) = <<>> THEN "Email is required"
         ELSE IF ~EmailRegex(value) THEN "Please enter a valid email address"
         ELSE ""
    [] name = "phone" ->
         IF Trim(value) = <<>> THEN "Phone number is required"
         ELSE IF ~PhoneRegex(value) THEN "Please enter a valid phone number"
         ELSE ""
    [] name = "company" ->
         IF Trim(value) = <<>> THEN "Company name is required"
         ELSE IF Len(Trim(value)) < 2 THEN "Company name must be at least 2 characters"
         ELSE ""
    [] OTHER -> ""

\* No field is validated.
ValidateNothing(formData) ==
  [errors |-> [f \in Fields |-> ""], isValid |-> TRUE]

\* validateForm(), lines 398-412: the errors it hands to setFormErrors
\* and the value it returns.
ValidateForm(formData) ==
  LET errors == [f \in Fields |-> ValidateFormField(f, formData[f])]
  IN  [errors |-> errors, isValid |-> \A f \in Fields : errors[f] = ""]

\* isUserInfoComplete(userInfo), lines 362-370
IsUserInfoComplete(userInfo) ==
  /\ userInfo # <<>>
  /\ \A f \in Fields : Trim(userInfo[1][f]) # <<>>

\* The form is on the screen: the step has a form (line 641), the live
\* chat has not replaced the widget (line 577).
FormShown == widget.step = "leadCapture" /\ ~widget.showLiveChat

\* onChange of a field, lines 661-674: the value is stored, and the error
\* of the field is cleared.
SetFormData(field, value) ==
  /\ FormShown
  /\ widget' = [widget EXCEPT !.formData[field] = value,
                              !.formErrors[field] = "",
                              !.task = "change"]
  /\ UNCHANGED <<clientVars, leadVars>>

\* onBlur of a field, lines 675-683: the field is validated.
BlurField(field) ==
  /\ FormShown
  /\ LET error == ValidateFormField(field, widget.formData[field])
     IN  widget' = [widget EXCEPT !.formErrors[field] = IF error # "" THEN error ELSE @,
                                 !.task = "blur"]
  /\ UNCHANGED <<clientVars, leadVars>>

\* handleOption(option), lines 432-490: the answer is logged; the option
\* "livechat" leads to the lead form as long as no complete user info is
\* stored, and to the live chat after that; an option with a next step
\* leads there.
HandleOption(cta, next) ==
  /\ ~widget.showLiveChat
  /\ widget.step # "leadCapture"
  /\ Len(widget.questionAnswerPairs) < MaxPairs
  /\ LET logged == [widget EXCEPT !.questionAnswerPairs = Append(@, widget.step),
                                  !.task = "option"]
     IN  widget' =
           IF cta = "livechat"
             THEN IF ~IsUserInfoComplete(widget.liveChatUserInfo)
                    THEN [logged EXCEPT !.step = "leadCapture"]
                    ELSE [logged EXCEPT !.questionAnswerPairs = Append(@, "livechat"),
                                        !.showLiveChat = TRUE]
             ELSE [logged EXCEPT !.step = next]
  /\ UNCHANGED <<clientVars, leadVars>>

\* handleFormSubmit(e), lines 492-534, up to the await of fetch: the
\* inputs are required (line 649) and the button is disabled while a
\* form is being submitted (line 696).  A form that is not valid gets its
\* errors and a toast; a valid one is logged and posted.
HandleFormSubmit ==
  /\ FormShown
  /\ ~widget.isSubmiting
  /\ \A f \in Fields : widget.formData[f] # <<>>
  /\ LET checked == ValidateForm(widget.formData)
         shown == [widget EXCEPT !.formErrors = checked.errors, !.task = "submit"]
     IN  /\ checked.isValid => widget.posts < MaxPosts
         /\ widget' =
              IF ~checked.isValid THEN shown
              ELSE [shown EXCEPT
                      !.questionAnswerPairs = Append(@, widget.step),
                      !.isSubmiting = TRUE,
                      !.posts = @ + 1]
  /\ UNCHANGED <<clientVars, leadVars>>

\* The response of POST /api/leads arrives, lines 535-572: a lead that
\* was saved is stored as the live-chat user info, the flow goes to the
\* next step and the form is cleared; a lead that was not saved leaves
\* the step.
LeadResponse(ok) ==
  /\ widget.isSubmiting
  /\ widget' =
       IF ok THEN [widget EXCEPT
                     !.liveChatUserInfo = <<[f \in Fields |-> Trim(widget.formData[f])]>>,
                     !.step = "closing",
                     !.formData = [f \in Fields |-> <<>>],
                     !.formErrors = [f \in Fields |-> ""],
                     !.isSubmiting = FALSE,
                     !.task = "response"]
       ELSE [widget EXCEPT !.isSubmiting = FALSE, !.task = "response"]
  /\ UNCHANGED <<clientVars, leadVars>>

\* ------------------------------------------------------- specifications
\* The transport: the client's calls, every socket event, the listeners.
Next ==
  \/ Connect
  \/ Disconnect
  \/ ForceReconnect
  \/ \E s \in Socks : OnConnect(s)
  \/ \E s \in Socks : OnDisconnect(s)
  \/ \E s \in Socks : OnConnectError(s)
  \/ \E s \in Socks : OnReconnect(s)
  \/ \E s \in Socks, attemptNumber \in 1..maxReconnectAttempts :
        OnReconnectAttempt(s, attemptNumber)
  \/ \E s \in Socks : OnReconnectError(s)
  \/ \E s \in Socks : OnReconnectFailed(s)
  \/ \E s \in Socks : OnError(s)
  \/ \E l \in Listeners : OnConnectionStateChange(l)
  \/ \E l \in Listeners : Unsubscribe(l)

Spec == Init /\ [][Next]_vars

\* connect() as long as io() has sockets left to hand out under
\* SessionSockets.
ConnectToNegotiate ==
  Connect /\ (AlreadyConnected \/ Cardinality(Created) < SessionSockets)

\* The session negotiation over a transport that connects, loses its
\* connection, tries to reconnect and is disconnected.
NextSession ==
  \/ ConnectToNegotiate
  \/ Disconnect
  \/ \E s \in Socks : OnConnect(s)
  \/ \E s \in Socks : OnDisconnect(s)
  \/ \E s \in Socks, attemptNumber \in 1..maxReconnectAttempts :
        OnReconnectAttempt(s, attemptNumber)
  \/ CreateChatSession
  \/ \E n \in Negs, success \in BOOLEAN : CreateSessionAck(n, success)
  \/ \E n \in Negs, success \in BOOLEAN : JoinSessionAck(n, success)
  \/ \E n \in Negs : SessionTimeout(n)

SpecSession == Init /\ [][NextSession]_vars

\* A timer that was set and is not cleared fires.
SpecSessionFair == SpecSession /\ \A n \in Negs : WF_vars(SessionTimeout(n))

\* connect() as long as io() has sockets left to hand out under
\* ListenerSockets.
ConnectToNotify == Connect /\ (AlreadyConnected \/ Cardinality(Created) < ListenerSockets)

\* The listeners of callers that observe, throw or unsubscribe themselves,
\* over a transport that connects, fails, loses its connection and is
\* disconnected.
NextListeners ==
  \/ ConnectToNotify
  \/ Disconnect
  \/ \E s \in Socks : OnConnect(s)
  \/ \E s \in Socks : OnDisconnect(s)
  \/ \E s \in Socks : OnConnectError(s)
  \/ \E s \in Socks : OnError(s)
  \/ \E l \in Listeners, b \in Behaviours : Subscribe(l, b)
  \/ \E l \in Listeners : Unsubscribe(l)

SpecListeners == Init /\ [][NextListeners]_vars

\* The user retries as long as io() has sockets left to hand out under
\* ChatSockets.
RetryToChat == ChatRetry /\ (AlreadyConnected \/ Cardinality(Created) < ChatSockets)

\* LiveChat from its mounting on: the user's retries and messages, the
\* socket events, the acknowledgements and the timer of the negotiation,
\* the events of the session.
NextChat ==
  \/ ChatMount
  \/ RetryToChat
  \/ \E s \in Socks : OnConnect(s)
  \/ \E s \in Socks : OnDisconnect(s)
  \/ \E s \in Socks : OnConnectError(s)
  \/ \E n \in Negs, success \in BOOLEAN : CreateSessionAck(n, success)
  \/ \E n \in Negs, success \in BOOLEAN : JoinSessionAck(n, success)
  \/ \E n \in Negs : SessionTimeout(n)
  \/ \E s \in Socks, id \in 1..(MaxMsgs + MaxAgentMsgs) : OnNewMessage(s, id)
  \/ \E s \in Socks, agentName \in AgentNames : OnAgentJoined(s, agentName)
  \/ \E s \in Socks : OnSessionClosed(s)
  \/ \E s \in Socks : OnSessionError(s)
  \/ ChatSend

SpecChat == Init /\ [][NextChat]_vars

\* The user's retries of the connection, each on a new socket until one
\* connects, over negotiations the server refuses or leaves unanswered.
NextRetry ==
  \/ ChatMount
  \/ ChatRetry
  \/ \E s \in Socks : OnConnect(s)
  \/ \E s \in Socks : OnConnectError(s)
  \/ \E n \in Negs, success \in BOOLEAN : CreateSessionAck(n, success)
  \/ \E n \in Negs : JoinSessionAck(n, FALSE)
  \/ \E n \in Negs : SessionTimeout(n)

SpecRetry == Init /\ [][NextRetry]_vars

\* The requests to POST /api/leads, in any interleaving.
NextLeads ==
  \/ \E r \in Reqs, email \in Emails, valid \in BOOLEAN : Post(r, email, valid)
  \/ \E r \in Reqs, fails \in BOOLEAN : FindOne(r, fails)
  \/ \E r \in Reqs, fails \in BOOLEAN : InsertOne(r, fails)
  \/ CreateIndex

SpecLeads == Init /\ [][NextLeads]_vars

\* The widget: the scripted flow and the lead form.
NextForm ==
  \/ \E field \in Fields : \E value \in Inputs(field) : SetFormData(field, value)
  \/ \E field \in Fields : BlurField(field)
  \/ \E cta \in {"none", "livechat"}, next \in {"leadCapture", "closing"} :
        HandleOption(cta, next)
  \/ HandleFormSubmit
  \/ \E ok \in BOOLEAN : LeadResponse(ok)

SpecForm == Init /\ [][NextForm]_vars

\* The user retries once the socket has connected.
RetryConnected == ChatRetry /\ AlreadyConnected

\* The user submits as long as fewer than TalkMsgs submissions were made.
ChatSendToTalk == ChatSend /\ sent < TalkMsgs

RetryMessageToTalk(i) == RetryMessage(i) /\ sent < TalkMsgs

\* The messages of LiveChat on one socket: the user's submissions and
\* retries of failed messages, their acknowledgements and timers (an
\* acknowledgement that is late is lost), the events of the session.
NextTalk ==
  \/ ChatMount
  \/ RetryConnected
  \/ \E s \in Socks : OnConnect(s)
  \/ \E s \in Socks : OnDisconnect(s)
  \/ \E n \in Negs, success \in BOOLEAN : CreateSessionAck(n, success)
  \/ \E n \in Negs, success \in BOOLEAN : JoinSessionAck(n, success)
  \/ \E s \in Socks, id \in 1..(MaxMsgs + MaxAgentMsgs) : OnNewMessage(s, id)
  \/ \E s \in Socks : OnAgentJoined(s, "Alex")
  \/ \E s \in Socks : OnSessionClosed(s)
  \/ ChatSendToTalk
  \/ \E i \in 1..(MaxMsgs + MaxAgentMsgs) : RetryMessageToTalk(i)
  \/ \E m \in Msgs, s \in Socks, hasMessage \in BOOLEAN : AckSuccess(m, s, hasMessage)
  \/ \E m \in Msgs, s \in Socks : AckFailure(m, s)
  \/ \E m \in Msgs : SendTimeout(m, FALSE)
  \/ \E m \in Msgs : RetryTimer(m)

SpecTalk == Init /\ [][NextTalk]_vars

\* connect() as long as io() has sockets left to hand out under SendSockets.
ConnectToSend == Connect /\ (AlreadyConnected \/ Cardinality(Created) < SendSockets)

\* The outbound message queue over a transport that connects, loses its
\* connection, reconnects and is disconnected.
NextSend ==
  \/ ConnectToSend
  \/ Disconnect
  \/ \E s \in Socks : OnConnect(s)
  \/ \E s \in Socks : OnDisconnect(s)
  \/ SendMessage
  \/ \E m \in Msgs, s \in Socks, hasMessage \in BOOLEAN : AckSuccess(m, s, hasMessage)
  \/ \E m \in Msgs, s \in Socks : AckFailure(m, s)
  \/ \E m \in Msgs, stillDue \in BOOLEAN : SendTimeout(m, stillDue)
  \/ \E m \in Msgs : RetryTimer(m)

SpecSend == Init /\ [][NextSend]_vars

\* connect() as long as io() has sockets left to hand out under
\* ResendSockets.
ConnectToResend == Connect /\ (AlreadyConnected \/ Cardinality(Created) < ResendSockets)

\* sendMessage() as long as fewer than SettleMsgs calls were made.
SendToSettle == SendMessage /\ sent < SettleMsgs

\* The outbound queue of SettleMsgs submissions on one socket, with
\* acknowledgements that succeed, fail, come late or never.
NextSettle ==
  \/ ConnectToSend
  \/ Disconnect
  \/ \E s \in Socks : OnConnect(s)
  \/ \E s \in Socks : OnDisconnect(s)
  \/ SendToSettle
  \/ \E m \in Msgs, s \in Socks : AckSuccess(m, s, TRUE)
  \/ \E m \in Msgs, s \in Socks : AckFailure(m, s)
  \/ \E m \in Msgs, stillDue \in BOOLEAN : SendTimeout(m, stillDue)
  \/ \E m \in Msgs : RetryTimer(m)

SpecSettle == Init /\ [][NextSettle]_vars

\* A timer that was set and is not cleared fires: the timeout of an
\* attempt, the back-off before a retry.
SpecSettleFair ==
  /\ SpecSettle
  /\ \A m \in Msgs : WF_vars(\E stillDue \in BOOLEAN : SendTimeout(m, stillDue))
  /\ \A m \in Msgs : WF_vars(RetryTimer(m))

\* sendMessage() and createChatSession() as long as fewer than FrameCalls
\* calls were made.
SendToFrame == SendMessage /\ sent < FrameCalls

NegotiateToFrame == CreateChatSession /\ negs < FrameCalls

\* Every operation of the client next to a listener that watches the
\* connection state: the transport on one socket, the negotiation of a
\* session, the outbound queue (an acknowledgement that is late is lost).
NextFrame ==
  \/ ConnectToSend
  \/ Disconnect
  \/ \E s \in Socks : OnConnect(s)
  \/ \E s \in Socks : OnDisconnect(s)
  \/ NegotiateToFrame
  \/ \E n \in Negs, success \in BOOLEAN : CreateSessionAck(n, success)
  \/ \E n \in Negs, success \in BOOLEAN : JoinSessionAck(n, success)
  \/ \E n \in Negs : SessionTimeout(n)
  \/ SendToFrame
  \/ \E m \in Msgs, s \in Socks : AckSuccess(m, s, TRUE)
  \/ \E m \in Msgs, s \in Socks : AckFailure(m, s)
  \/ \E m \in Msgs : SendTimeout(m, FALSE)
  \/ \E m \in Msgs : RetryTimer(m)
  \/ \E l \in Listeners : OnConnectionStateChange(l)
  \/ \E l \in Listeners : Unsubscribe(l)

SpecFrame == Init /\ [][NextFrame]_vars

\* A send in flight while the client is disconnected and connected again
\* (an acknowledgement that is late is lost).
NextResend ==
  \/ ConnectToResend
  \/ Disconnect
  \/ \E s \in Socks : OnConnect(s)
  \/ SendToFrame
  \/ \E m \in Msgs, s \in Socks : AckSuccess(m, s, TRUE)
  \/ \E m \in Msgs, s \in Socks : AckFailure(m, s)
  \/ \E m \in Msgs : SendTimeout(m, FALSE)
  \/ \E m \in Msgs : RetryTimer(m)

SpecResend == Init /\ [][NextResend]_vars

\* ================================================================ claims
Pending == {m \in Msgs : deliv[m].phase = "pending"}

Rejected(value) == [status |-> "rejected", value |-> value]

\* C1: the messages accepted by sendMessage() reach the wire in the order
\* of submission: the first 'send-message' emissions of the submissions
\* are in increasing order of submission, also when earlier ones are
\* retried after failure acknowledgements or timeouts.
C1_FirstEmissionsInSubmissionOrder ==
  \A i, j \in 1..Len(wireFirst) : i < j => wireFirst[i] < wireFirst[j]

C1_Witness ==
  /\ wireFirst = <<1, 2, 3>>
  /\ emits[1] > 1
  /\ emits[2] > 1
  /\ deliv[1].retryCount > 1

\* C2: at most one delivery is unsettled at a time, so at most one loop of
\* processMessageQueue is suspended on an await; no message has been
\* emitted while the delivery of an earlier dequeued one is unsettled; and
\* while a delivery is unsettled isProcessingQueue is set.
C2_OneInFlight ==
  /\ Cardinality(Pending) <= 1
  /\ \A i, j \in Msgs : i < j /\ emits[j] > 0 => deliv[i].phase # "pending"
  /\ Pending # {} => isProcessingQueue

C2_Witness ==
  \E m \in Msgs :
    /\ deliv[m].phase = "pending"
    /\ deliv[m].retryCount > 0
    /\ Len(messageQueue) = 2

\* C3: sendMessage() called with no socket or with isConnected = false
\* rejects at once with the not-connected error, leaves the message queue
\* as it was and emits nothing.
C3_NotConnectedRejects ==
  [][(op' = "sendMessage" /\ (socket = NoSocket \/ ~connectionState.isConnected))
       => /\ outcome'[sent'] = Rejected("NotConnected")
          /\ messageQueue' = messageQueue
          /\ emits' = emits
          /\ out' = <<>>]_vars

C3_Witness ==
  /\ op = "sendMessage"
  /\ outcome[sent] = Rejected("NotConnected")
  /\ socket # NoSocket
  /\ ~connectionState.isConnected
  /\ Pending # {}

\* C4 as stated: a send is given up once 3 attempts have failed, so no
\* submission is ever emitted more than 3 times.
C4_ThreeAttempts == \A m \in Msgs : emits[m] <= 3

\* C4 as amended: a send is emitted at most 1 + maxRetries = 4 times; once
\* its failures (failure acknowledgements and timeouts) exceed maxRetries
\* its delivery is settled, with a delivery error unless it had succeeded
\* before; and a rejected delivery or promise is never resolved afterwards.
C4_RetryBound ==
  [][\A m \in Msgs :
       /\ emits'[m] <= maxRetries + 1
       /\ deliv'[m].retryCount > maxRetries
            => \/ deliv'[m].phase = "resolved"
               \/ /\ deliv'[m].phase = "rejected"
                  /\ deliv'[m].val \in {"DeliveryFailed", "DeliveryTimeout"}
       /\ deliv[m].phase = "rejected" => deliv'[m].phase = "rejected"
       /\ outcome[m].status = "rejected" => outcome'[m] = outcome[m]]_vars

C4_Witness ==
  \E m \in Msgs :
    /\ emits[m] = maxRetries + 1
    /\ deliv[m].retryCount = maxRetries + 1
    /\ deliv[m].phase = "rejected"
    /\ outcome[m] = Rejected("DeliveryFailed")

\* C5: when the server acknowledges a send with its copy of the message,
\* the promise of sendMessage() resolves with that copy.
C5_ResolvesWithServerCopy ==
  \A m \in Msgs :
    outcome[m].status = "resolved" /\ deliv[m].val = "server" => outcome[m].value = "server"

\* C6: disconnect() rejects every pending send promise, in flight or
\* queued, with the connection-closed error and leaves the queue empty.
C6_DisconnectRejectsEverySend ==
  [][op' = "disconnect"
       => /\ messageQueue' = <<>>
          /\ \A m \in Msgs : outcome[m].status = "pending"
                               => outcome'[m] = Rejected("ConnectionClosed")]_vars

\* C7: when disconnect() returns, ConnectionState has its initial values,
\* the client holds no socket and the current session id is null.
C7_DisconnectResets ==
  op = "disconnect"
    => /\ connectionState = InitialConnectionState
       /\ socket = NoSocket
       /\ sessionId = NoSession

C7_Witness ==
  /\ op = "disconnect"
  /\ \E n \in Negs : neg[n].promise.status = "pending"
  /\ \E s \in Socks : sock[s] = "closed"
  /\ \E s \in Socks : sock[s] = "retrying"

\* C8: disconnect() rejects every pending createChatSession() promise with
\* the connection-closed error.
C8_DisconnectRejectsNegotiation ==
  [][op' = "disconnect"
       => \A n \in Negs : neg[n].promise.status = "pending"
                            => neg'[n].promise = Rejected("ConnectionClosed")]_vars

\* C9: connect() called while the client's socket is connected keeps the
\* socket, creates none, leaves ConnectionState as it is, calls no
\* listener and emits nothing.
C9_ConnectIdempotent ==
  [][(op' = "connect" /\ SockConnected(socket))
       => /\ socket' = socket
          /\ sock' = sock
          /\ connectionState' = connectionState
          /\ notified' = <<>>
          /\ out' = <<>>]_vars

C9_Witness ==
  /\ op = "connect"
  /\ SockConnected(socket)
  /\ connectionListeners # <<>>
  /\ \E s \in Socks : sock[s] = "none"

\* C10: isConnected and isConnecting are never both true.
C10_NotConnectedAndConnecting ==
  ~(connectionState.isConnected /\ connectionState.isConnecting)

\* C11: createChatSession() called while isConnected is not true rejects
\* at once with the not-connected error, emits neither 'create-session'
\* nor 'join-session', starts no timer and leaves the stored session id.
C11_NotConnectedFailsAtOnce ==
  [][(op' = "createChatSession" /\ ~connectionState.isConnected)
       => /\ neg'[negs'].promise = Rejected("NotConnected")
          /\ ~neg'[negs'].timer
          /\ neg'[negs'].wait = "none"
          /\ out' = <<>>
          /\ sessionId' = sessionId]_vars

C11_Witness ==
  /\ op = "createChatSession"
  /\ neg[negs].promise = Rejected("NotConnected")
  /\ socket # NoSocket
  /\ ~connectionState.isConnected
  /\ sessionId # NoSession

\* C12: every createChatSession() call settles in the end; as long as its
\* promise is pending its 15 s timer is set, and when the timer fires on a
\* pending promise (phase 1 or phase 2 not acknowledged) the promise is
\* rejected with the timed-out error.
C12_NegotiationSettles ==
  /\ \A n \in Negs : (neg[n].promise.status = "pending")
                        ~> (neg[n].promise.status \in {"resolved", "rejected"})
  /\ [](\A n \in Negs : neg[n].promise.status = "pending" => neg[n].timer)
  /\ [][\A n \in Negs :
          (neg[n].promise.status = "pending" /\ neg[n].timer /\ ~neg'[n].timer
             /\ op' = "timer:session")
            => neg'[n].promise = Rejected("TimedOut")]_vars

C12_Witness ==
  /\ op = "timer:session"
  /\ \E n \in Negs : /\ neg[n].last = "createOk"
                      /\ neg[n].wait = "join"
                      /\ neg[n].promise = Rejected("TimedOut")

\* C13: the promise of createChatSession() is resolved exactly when the
\* acknowledgement of 'join-session' reports success while the promise is
\* pending, which needs a successful acknowledgement of 'create-session'
\* before it; it resolves with the session of the 'create-session'
\* acknowledgement; 'join-session' is emitted only by a successful
\* acknowledgement of 'create-session' and carries the id of the draft.
C13_ResolvesOnFullSuccess ==
  [][\A n \in Negs :
       /\ (neg'[n].promise.status = "resolved" /\ neg[n].promise.status # "resolved")
            => /\ op' = "ack:join-session"
               /\ neg[n].last = "createOk"
               /\ neg'[n].last = "joinOk"
               /\ neg[n].promise.status = "pending"
               /\ neg'[n].promise.value = "session"
       /\ (neg[n].promise.status = "pending" /\ neg[n].last # "joinOk"
              /\ neg'[n].last = "joinOk")
            => neg'[n].promise.status = "resolved"
       /\ (\E i \in 1..Len(out') : out'[i][1] = "join-session" /\ out'[i][2] = n)
            => /\ op' = "ack:create-session"
               /\ neg[n].wait = "create"
               /\ neg'[n].last = "createOk"
       /\ (op' = "ack:create-session" /\ neg[n].wait = "create" /\ neg'[n].wait = "join")
            => out' = <<<<"join-session", n, socket>>>>]_vars

C13_Witness ==
  /\ op = "ack:join-session"
  /\ neg[1].promise = Rejected("TimedOut")
  /\ neg[1].last = "joinOk"
  /\ neg[2].promise = [status |-> "resolved", value |-> "session"]

\* C14: a failure acknowledgement in either phase rejects the pending
\* promise at once with the server's error and clears the 15 s timer,
\* which is never set again for that call; a failure acknowledgement of
\* 'create-session' emits no 'join-session', then or later.
C14_FailureRejectsAndCancels ==
  [][\A n \in Negs :
       /\ (neg'[n].last \in {"createFail", "joinFail"} /\ neg[n].last # neg'[n].last)
            => /\ neg[n].promise.status = "pending"
                    => neg'[n].promise = Rejected("ServerError")
               /\ ~neg'[n].timer
               /\ out' = <<>>
       /\ neg[n].last \in {"createFail", "joinFail"}
            => /\ ~neg'[n].timer
               /\ neg'[n].last = neg[n].last
               /\ \A i \in 1..Len(out') : ~(out'[i][1] = "join-session" /\ out'[i][2] = n)]_vars

C14_Witness ==
  /\ neg[1].last = "createFail"
  /\ neg[1].promise = Rejected("ServerError")
  /\ neg[2].last = "joinFail"
  /\ neg[2].promise = Rejected("ServerError")
  /\ op = "ack:join-session"

\* The tasks that change ConnectionState exactly once: the handlers of the
\* socket's events.
EventOps ==
  {"on:connect", "on:disconnect", "on:connect_error", "on:reconnect",
   "on:reconnect_attempt", "on:reconnect_error", "on:reconnect_failed", "on:error"}

Count(seq, x) == Cardinality({i \in 1..Len(seq) : seq[i] = x})

\* C16: a change of ConnectionState calls every registered listener once,
\* in registration order, also when a listener unsubscribes itself while
\* the listeners are being called: no listener is called twice, the calls
\* follow the registration order, and every listener that is registered
\* before the change and after it has been called.
C16_EveryListenerNotifiedOnce ==
  [][op' \in EventOps
       => /\ \A l \in Listeners : Count(notified', l) <= 1
          /\ \A i, j \in 1..Len(notified') :
                i < j => \E a, b \in 1..Len(connectionListeners) :
                           /\ a < b
                           /\ connectionListeners[a] = notified'[i]
                           /\ connectionListeners[b] = notified'[j]
          /\ \A l \in Listeners :
                InSeq(connectionListeners, l) /\ InSeq(connectionListeners', l)
                  => Count(notified', l) = 1]_vars

\* C17: an exception thrown by a listener never leaves the client, whether
\* the listener is called for a change of ConnectionState or at its
\* registration, and it keeps no other listener from being called.
C17_ListenerExceptionsCaught ==
  [][/\ ~raised'
     /\ (op' \in EventOps /\ \A l \in Listeners : behaviour[l] # "unsubscribes")
          => notified' = connectionListeners]_vars

\* The tasks in which the transport or the server reports a failure.
FailureOps ==
  {"on:disconnect", "on:connect_error", "on:session-error", "ack:create-session",
   "ack:join-session", "timer:session"}

\* C15: the start-session flow of a freshly mounted LiveChat goes from
\* 'connecting' to 'waiting' without passing through 'error' and without
\* a retry by the user when the server can be reached and acknowledges
\* every request: as long as the user has not retried, the status becomes
\* 'error' only in a task in which the transport or the server reports a
\* failure.
C15_StartReachesWaiting ==
  [][(chat'.sessionStatus = "error" /\ chat.sessionStatus # "error" /\ chat'.retries = 0)
       => op' \in FailureOps]_vars

\* C18: the message list of LiveChat never holds two entries with the
\* same id, whatever 'new-message' events arrive and whichever ids they
\* repeat, those of LiveChat's own messages included.
C18_NoDuplicateIds ==
  \A i, j \in DOMAIN chat.messages : i # j => chat.messages[i].id # chat.messages[j].id

C18_Witness ==
  /\ op = "on:new-message"
  /\ heard[1][3] = chat.handlers
  /\ heard[1][2] \in 1..chat.ids
  /\ chat.duplicate
  /\ \E i \in DOMAIN chat.messages : chat.messages[i].id \in AgentMsgIds
  /\ Len(chat.messages) >= 3

\* C19: while the status is 'waiting', an 'agent-joined' event that
\* arrives on the socket the server knows the session by moves the status
\* to 'active' and sets the agent's name to the name the event carries.
C19_AgentJoinedActivates ==
  [][(op' = "on:agent-joined" /\ chat.sessionStatus = "waiting"
        /\ chat.session # NoSession /\ heard'[1][3] = neg[chat.session].room)
       => /\ chat'.sessionStatus = "active"
          /\ chat'.agentName = heard'[1][2]]_vars

\* C20: once the status is 'closed' it stays 'closed'.
C20_ClosedIsTerminal ==
  [][chat.sessionStatus = "closed" => chat'.sessionStatus = "closed"]_vars

\* The calls LiveChat makes to socketClient.sendMessage.
SendOps == {"chat:send", "chat:retry-message"}

\* C21: while the status is 'closed' no call to socketClient.sendMessage is
\* made, neither for a new message nor for the retry of a failed one.
C21_NoSendWhenClosed ==
  [][op' \in SendOps => chat.sessionStatus # "closed"]_vars

\* The position of the message of id in the list, 0 when it has none.
Position(messages, id) ==
  IF \E i \in DOMAIN messages : messages[i].id = id
    THEN CHOOSE i \in DOMAIN messages : messages[i].id = id
    ELSE 0

\* C25: when the promise of a send of LiveChat rejects, the message is in
\* the list afterwards, where it was (or at the end when the send that
\* added it is the one rejected), with failed = true.
C25_RejectedSendMarkedFailed ==
  [][\A m \in Msgs :
       (chat'.mounted /\ chat'.owner[m] # NoMessage
          /\ outcome[m].status # "rejected" /\ outcome'[m].status = "rejected")
       => LET id == chat'.owner[m]
              was == Position(chat.messages, id)
              now == Position(chat'.messages, id)
          IN  /\ now # 0
              /\ chat'.messages[now].failed
              /\ now = IF was # 0 THEN was ELSE Len(chat.messages) + 1]_vars

\* A retried message is rejected again, behind another entry of the list.
C25_Witness ==
  /\ op = "chat:retry-message"
  /\ outcome[sent] = Rejected("NotConnected")
  /\ Position(chat.messages, chat.owner[sent]) = 2
  /\ chat.messages[2].failed

\* The fields of an entry that never change.
Identity(msg) == <<msg.id, msg.sessionId, msg.sender, msg.text>>

\* C26: the list of messages only grows at its end, and an entry changes
\* only in failed and createdAt.
C26_ListAppendOnly ==
  [][/\ Len(chat'.messages) >= Len(chat.messages)
     /\ \A i \in DOMAIN chat.messages :
          Identity(chat'.messages[i]) = Identity(chat.messages[i])]_vars

\* An echo of a failed message of LiveChat is dropped while the list holds
\* an agent's message and a message of LiveChat's.
C26_Witness ==
  /\ op = "on:new-message"
  /\ chat.duplicate
  /\ \E i \in DOMAIN chat.messages :
       chat.messages[i].failed /\ heard[1][2] = chat.messages[i].id
  /\ \E i \in DOMAIN chat.messages : chat.messages[i].sender = "agent"

\* Connection loss is reported: the task updates ConnectionState and
\* leaves it with a lastError.
LossReported == connectionState' # connectionState /\ connectionState'.lastError # "null"

\* A negotiation of createChatSession is rejected in the task.
NegotiationRejected ==
  \E n \in Negs : neg[n].promise.status = "pending" /\ neg'[n].promise.status = "rejected"

\* 'session-error' arrives on the socket the client uses.
SessionErrorHeard == op' = "on:session-error" /\ heard'[1][3] = socket

\* C22: while LiveChat is mounted and its status is not 'closed', a
\* connection loss reported through lastError, a rejected negotiation and
\* a 'session-error' event each leave the status 'error'.
C22_FailuresLeadToError ==
  [][(chat.mounted /\ chat.sessionStatus # "closed"
        /\ (LossReported \/ NegotiationRejected \/ SessionErrorHeard))
       => chat'.sessionStatus = "error"]_vars

\* C23: the status leaves 'error' only by the user's retry, to
\* 'connecting', or by 'session-closed', to 'closed'.
C23_ErrorLeftOnlyByRetryOrClose ==
  [][(chat.sessionStatus = "error" /\ chat'.sessionStatus # "error")
       => \/ op' = "retry" /\ chat'.sessionStatus = "connecting"
          \/ op' = "on:session-closed" /\ chat'.sessionStatus = "closed"]_vars

\* C24: the user's retry runs only while the status is 'error' and fewer
\* than 3 retries were made, so that initializeConnection runs at most
\* 1 + 3 times.
C24_RetriesBounded ==
  [][/\ op' = "retry" => chat.sessionStatus = "error" /\ chat.retries < sessionRetries
     /\ chat'.retries <= sessionRetries
     /\ chat'.inits <= 1 + sessionRetries]_vars

\* The last retry of the budget has run and has failed.
C24_Witness ==
  /\ chat.retries = sessionRetries
  /\ chat.inits = 1 + sessionRetries
  /\ chat.sessionStatus = "error"
  /\ ~CanRetry

\* The sockets that connect in the task.
Connecting == {s \in Socks : sock[s] # "open" /\ sock'[s] = "open"}

\* The 'register-client' emissions of the task.
Registrations == {i \in 1..Len(out') : out'[i][1] = "register-client"}

\* C27: a task in which a socket connects emits 'register-client'
\* {type: "chatbot"} once, on that socket, and no other task emits it.
C27_RegisterOnEveryConnect ==
  [][/\ \A s \in Connecting : out' = <<<<"register-client", "chatbot", s>>>>
     /\ Registrations # {} => Connecting # {}]_vars

\* C28: reconnectAttempts never exceeds the maximum of 5, and the task
\* that handles 'connect' or 'reconnect' leaves ConnectionState connected,
\* not connecting, without error and with no attempt counted.
C28_AttemptsBoundedAndReset ==
  [][/\ connectionState'.reconnectAttempts <= 5
     /\ op' \in {"on:connect", "on:reconnect"}
          => connectionState' = [isConnected |-> TRUE, isConnecting |-> FALSE,
                                 lastError |-> "null", reconnectAttempts |-> 0]]_vars

\* A reconnection has succeeded: its attempts were counted and the count
\* is back to 0.
C28_Witness ==
  /\ op = "on:reconnect"
  /\ connectionState.isConnected
  /\ connectionState.reconnectAttempts = 0

\* The task handles 'reconnect_failed': the state is not connected, not
\* connecting and carries the error, every listener was called, nothing
\* was thrown.
ExhaustionSignalled ==
  op' = "on:reconnect_failed"
    => /\ ~connectionState'.isConnected
       /\ ~connectionState'.isConnecting
       /\ connectionState'.lastError = "AllAttemptsFailed"
       /\ notified' = connectionListeners
       /\ ~raised'

\* While the state is the one 'reconnect_failed' left and no handshake
\* started by connect() or forceReconnect() is under way, only connect()
\* and forceReconnect() make the state connected or connecting.
ExhaustionLasts ==
  (/\ ~connectionState.isConnected
   /\ ~connectionState.isConnecting
   /\ connectionState.lastError = "AllAttemptsFailed"
   /\ \A s \in Socks : sock[s] # "opening"
   /\ op' \notin {"connect", "forceReconnect"})
    => ~connectionState'.isConnected /\ ~connectionState'.isConnecting

\* C29: the exhaustion of the reconnection attempts is reported through
\* ConnectionState alone, and the state stays not connected and not
\* connecting until connect() or forceReconnect() is called.
C29_ExhaustionIsTerminal == [][ExhaustionSignalled /\ ExhaustionLasts]_vars

\* The handler of r answers in the step.
Answers(r) == request[r].pc # "done" /\ request'[r].pc = "done"

\* C30: the store never holds two leads with one email, and a request
\* whose email is stored when it is answered is answered with 409 and
\* inserts nothing, unless the database failed.
C30_OneLeadPerEmail ==
  [][/\ \A i, j \in DOMAIN store'.docs :
          i # j => store'.docs[i].email # store'.docs[j].email
     /\ \A r \in Reqs :
          (Answers(r) /\ Stored(request[r].email) /\ request'[r].error # "Outage")
            => request'[r].status = 409 /\ store' = store]_vars

\* C31: a lead form with an invalid field is rejected before any network
\* call: handleFormSubmit posts nothing, records an error for each invalid
\* field, and leaves the step, the question/answer log and the stored
\* live-chat user info as they were.
C31_InvalidFormRejected ==
  [][(widget'.task = "submit"
        /\ \E f \in Fields : ValidateFormField(f, widget.formData[f]) # "")
     => /\ widget'.posts = widget.posts
        /\ widget'.step = widget.step
        /\ widget'.questionAnswerPairs = widget.questionAnswerPairs
        /\ widget'.liveChatUserInfo = widget.liveChatUserInfo
        /\ \A f \in Fields :
              ValidateFormField(f, widget.formData[f]) # "" => widget'.formErrors[f] # ""]_vars

\* A form with two invalid fields was submitted after a lead had been
\* saved: nothing was posted for it.
C31_Witness ==
  /\ widget.task = "submit"
  /\ ~widget.isSubmiting
  /\ widget.liveChatUserInfo # <<>>
  /\ Cardinality({f \in Fields : widget.formErrors[f] # ""}) = 2
  /\ ValidateFormField("email", widget.formData["email"]) = "Please enter a valid email address"
  /\ ValidateFormField("phone", widget.formData["phone"]) = ""

\* The operations of the client that are not the transport's.
FrameOps ==
  {"createChatSession", "ack:create-session", "ack:join-session", "timer:session",
   "sendMessage", "ack:success", "ack:failure", "timer:send", "timer:retry",
   "onConnectionStateChange", "unsubscribe"}

\* C32: createChatSession(), sendMessage(), the queue processing and the
\* registrations leave the connection state as it was and notify no
\* listener, except that onConnectionStateChange calls the listener it
\* registers, once.
C32_StateWrittenByTransportOnly ==
  [][op' \in FrameOps
     => /\ connectionState' = connectionState
        /\ notified' = IF op' = "onConnectionStateChange"
                         THEN <<connectionListeners'[Len(connectionListeners')]>>
                         ELSE <<>>]_vars

\* A message was acknowledged and a session negotiated while two listeners
\* watched the connected state.
C32_Witness ==
  /\ op = "ack:success"
  /\ outcome[1].status = "resolved"
  /\ neg[1].promise.status = "resolved"
  /\ Len(connectionListeners) = 2
  /\ connectionState.isConnected

\* C33: onConnectionStateChange calls the listener it registers once, with
\* the state as it is; a listener is called only while it is registered,
\* so never after its unsubscribe handle was invoked; and a change of
\* ConnectionState reaches every other listener, that is every listener
\* registered before the change and after it.
C33_UnsubscribeSilencesOnlyItsListener ==
  [][/\ op' = "onConnectionStateChange"
          => /\ notified' = <<connectionListeners'[Len(connectionListeners')]>>
             /\ connectionState' = connectionState
     /\ op' # "onConnectionStateChange"
          => \A i \in 1..Len(notified') : InSeq(connectionListeners, notified'[i])
     /\ op' \in EventOps
          => \A l \in Listeners :
                InSeq(connectionListeners, l) /\ InSeq(connectionListeners', l)
                  => InSeq(notified', l)]_vars

\* The submissions of which the last task emitted 'send-message'.
Emitted(o) == {o[i][2] : i \in {j \in 1..Len(o) : o[j][1] = "send-message"}}

\* C36: once the promise of a send has settled, resolved or rejected, the
\* message is not emitted again; so no retry of an earlier message goes on
\* the wire after a later submission, also when an acknowledgement arrives
\* after the timeout of its attempt has started a retry.
C36_NoEmissionAfterSettled ==
  [][\A m \in Emitted(out') : outcome[m].status \notin {"resolved", "rejected"}]_vars

\* C35: one sendMessage() call emits 'send-message' at most 1 + maxRetries
\* = 4 times, whatever failure acknowledgements, timeouts and late
\* acknowledgements occur, and every emission carries the createdAt that
\* was stamped when the delivery started.
C35_EmissionsBoundedSameStamp ==
  \A m \in Msgs :
    /\ emits[m] <= 1 + maxRetries
    /\ deliv[m].stamps \subseteq {deliv[m].createdAt}
    /\ emits[m] > 0 => deliv[m].stamps = {deliv[m].createdAt}

\* The second submission was emitted four times, after timeouts, a
\* failure acknowledgement and an acknowledgement that came late; its
\* delivery started when the first one had been emitted.
C35_Witness ==
  /\ emits[2] = 1 + maxRetries
  /\ late > 0
  /\ deliv[2].createdAt > 0
  /\ op = "timer:retry"

\* C37: a createChatSession() call that its 15 s timeout has rejected
\* emits nothing more: an acknowledgement of 'create-session' that arrives
\* after the timeout causes no 'join-session'.
C37_NoJoinAfterTimeout ==
  [][\A n \in Negs :
       neg[n].promise = Rejected("TimedOut")
         => \A i \in 1..Len(out') : ~(out'[i][1] = "join-session" /\ out'[i][2] = JoinKey(n))]_vars

\* C38: disconnect() cancels the sends in flight for good: a message
\* submitted before disconnect(), that is one whose delivery started on a
\* socket disconnect() has closed, is not emitted afterwards, also when
\* connect() is called while its timers are pending.
C38_DisconnectCancelsSends ==
  [][\A m \in Emitted(out') : sock'[deliv'[m].via] # "closed"]_vars

\* C34: every promise of sendMessage() settles in the end, whatever the
\* server answers and whenever the client connects and disconnects: a
\* pending promise is resolved or rejected, a queued entry leaves the
\* queue, and isProcessingQueue does not stay true.
C34_EverySendSettles ==
  /\ \A m \in Msgs : (outcome[m].status = "pending")
                        ~> (outcome[m].status \in {"resolved", "rejected"})
  /\ \A m \in Msgs : InSeq(messageQueue, m) ~> ~InSeq(messageQueue, m)
  /\ isProcessingQueue ~> ~isProcessingQueue

\* A send in flight when disconnect() was called has been rejected by its
\* timeouts, and the queue is at rest again.
C34_Witness ==
  /\ op = "timer:send"
  /\ socket = NoSocket
  /\ outcome[1] = Rejected("DeliveryTimeout")
  /\ ~isProcessingQueue
  /\ emits[1] = 1

\* A socket that is connected or that its manager is still working on:
\* its handlers may run.
Live(s) == sock[s] \in {"opening", "open", "lost", "retrying", "reopened", "spent"}

\* C39: the client owns at most one live socket: whatever connect(),
\* forceReconnect() and disconnect() calls were made, no socket but the
\* one the client holds is left open with handlers that update
\* ConnectionState or emit 'register-client'.
C39_OneLiveSocket == \A s \in Socks : Live(s) => s = socket

\* C40: the inbound handlers follow the connection: whatever
\* initializations and retries were made, an inbound event that arrives on
\* the socket the client holds, where its session lives, is delivered to
\* the handlers LiveChat registered.
C40_HandlersFollowConnection ==
  [][(chat.mounted /\ heard' # <<>> /\ heard'[1][3] = socket)
       => Handled(heard'[1][3])]_vars

====
